---- MODULE Spec2Model ----
(***************************************************************************)
(* Model of the mental-health dashboard: the Loader (utils/data_loader.py) *)
(* and the recode / bin / aggregate pipeline that each Streamlit page      *)
(* re-executes on every render (Dashboard, Country_Analysis,               *)
(* Occuption_Analysis).  One action is one full run of a page script.      *)
(***************************************************************************)
EXTENDS Integers, Sequences, FiniteSets, TLC

VARIABLES
    file,      \* the backing CSV: [exists, columns, rows]
    observed,  \* what DataFrame.groupby defaults `observed` to in the installed pandas
    render,    \* outcome of the latest script run (page, widgets, df, labels, counts, ...)
    column,    \* a raw column handed to the Recoder          (Recoder specification)
    recoded,   \* the Recoder's output for `column`           (Recoder specification)
    rerecoded, \* the Recoder's output for `recoded`          (Recoder specification)
    session,   \* st.session_state, kept by Streamlit from one script run to the next
    clicks     \* how many times "Rotate View" has been clicked so far (history)

vars == <<file, observed, render, column, recoded, rerecoded, session, clicks>>

(***************************************************************************)
(* Cells.  A DataFrame cell is a string, a number, or NaN.                 *)
(***************************************************************************)
Str(s) == [t |-> "str", s |-> s, n |-> 0]
Num(n) == [t |-> "num", s |-> "", n |-> n]
NaN    == [t |-> "nan", s |-> "", n |-> 0]

notna(x) == x.t # "nan"

(***************************************************************************)
(* Bounds.                                                                 *)
(***************************************************************************)
MaxRows   == 3   \* rows in the CSV
MaxColLen == 2   \* length of a column handed to the Recoder on its own
MaxSessionRows == 1   \* rows in the CSV when sequences of script runs are explored
MaxClicks == 3   \* clicks on "Rotate View" in one session

(***************************************************************************)
(* Recoder: df[col].replace(conversion_dict); pd.to_numeric(errors=coerce) *)
(***************************************************************************)
\* Variant: "Rarely" scored like "Sometimes".
conversion_dict_rarely ==
    ("No" :> 0) @@ ("Yes" :> 1) @@
    ("Rarely" :> 2) @@ ("Sometimes" :> 2) @@ ("Often" :> 3) @@ ("Always" :> 4) @@
    ("1-14 days" :> 7) @@ ("15-30 days" :> 22) @@ ("More than 30 days" :> 35) @@
    ("Go out Every day" :> 0) @@ ("More than 2 months" :> 60)

conversion_dict ==
    ("No" :> 0) @@ ("Yes" :> 1) @@
    ("Rarely" :> 1) @@ ("Sometimes" :> 2) @@ ("Often" :> 3) @@ ("Always" :> 4) @@
    ("1-14 days" :> 7) @@ ("15-30 days" :> 22) @@ ("More than 30 days" :> 35) @@
    ("Go out Every day" :> 0) @@ ("More than 2 months" :> 60)

\* Variant: Series.map(dict), which turns every cell that is no key into NaN.
replace_map(x, d) ==
    IF x.t = "str" /\ x.s \in DOMAIN d THEN Num(d[x.s]) ELSE NaN

\* Series.replace(dict): a cell equal to a key becomes the key's value,
\* every other cell is left as it is.
replace(x, d) ==
    IF x.t = "str" /\ x.s \in DOMAIN d THEN Num(d[x.s]) ELSE x

\* The strings of the model that pd.to_numeric parses as a number.
numeric_literals == ("5" :> 5) @@ ("0" :> 0) @@ ("22" :> 22)

\* pd.to_numeric(errors='coerce'): numbers stay, a string that parses becomes
\* its number, anything else becomes NaN; nothing is raised.
to_numeric(x) ==
    IF x.t = "num" THEN x
    ELSE IF x.t = "str" /\ x.s \in DOMAIN numeric_literals
         THEN Num(numeric_literals[x.s])
         ELSE NaN

Recoder(x) == to_numeric(replace(x, conversion_dict))

RecodeColumn(col) == [i \in DOMAIN col |-> Recoder(col[i])]

\* Raw tokens handed to the Recoder: the vocabulary, unexpected strings and
\* numeric-looking strings.
UnexpectedTokens == {"Maybe", "yes"}
RawTokens == DOMAIN conversion_dict \cup UnexpectedTokens \cup DOMAIN numeric_literals

(***************************************************************************)
(* The CSV.  A row is a respondent: country, occupation, gender and one    *)
(* raw answer per factor column present in the file.                       *)
(***************************************************************************)
stress_related_columns ==
    <<"growing_stress", "coping_struggles", "changes_habits", "social_weakness">>

mental_health_factors ==
    <<"growing_stress", "changes_habits", "mental_health_history",
      "coping_struggles", "work_interest", "social_weakness">>

categorical_columns == {"gender", "country", "occupation"}

Range(s) == {s[i] : i \in DOMAIN s}

FactorColumns == Range(stress_related_columns) \cup Range(mental_health_factors)

\* The respondents of the model and the answers they give to growing_stress.
Profiles ==
    << [country |-> "United States", occupation |-> "Student",   gender |-> "Male"],
       [country |-> "Canada",        occupation |-> "Housewife", gender |-> "Female"],
       [country |-> "Canada",        occupation |-> "Housewife", gender |-> "Male"] >>

Answers == <<"No", "Sometimes", "Always", "Maybe">>

\* The factor columns a CSV of the model may lack.
MissingColumns == {{}, {"growing_stress"}}

\* Row number k of the model: profile p answering a to growing_stress; the
\* other factor columns hold a fixed answer.
CsvRow(p, a, cols) ==
    [country    |-> Profiles[p].country,
     occupation |-> Profiles[p].occupation,
     gender     |-> Profiles[p].gender,
     vals       |-> [c \in cols |->
                       IF c = "growing_stress" THEN Str(Answers[a])
                       ELSE IF c = "coping_struggles"
                            THEN (IF Profiles[p].gender = "Female" THEN Str("Yes") ELSE Str("No"))
                            ELSE Str("No")]]

RowKeys == (DOMAIN Profiles) \X (DOMAIN Answers)

KeyRank(k) == (k[1] - 1) * Len(Answers) + k[2]

\* CSV bodies of at most MaxRows rows.  Row order never matters to a page,
\* so only one order of each multiset of rows is enumerated.
CsvBodies(cols) ==
    UNION { { [i \in 1..n |-> CsvRow(ks[i][1], ks[i][2], cols)] :
                ks \in { f \in [1..n -> RowKeys] :
                           \A i \in 1..(n-1) : KeyRank(f[i]) <= KeyRank(f[i+1]) } } :
            n \in 0..MaxRows }

CsvFiles ==
    { [exists |-> FALSE, columns |-> {}, rows |-> <<>>] }
    \cup UNION { { [exists |-> TRUE, columns |-> FactorColumns \ m, rows |-> b] :
                     b \in CsvBodies(FactorColumns \ m) } : m \in MissingColumns }

(***************************************************************************)
(* Loader: utils/data_loader.py                                            *)
(***************************************************************************)
RECURSIVE DropDup(_, _)
DropDup(s, seen) ==
    IF s = <<>> THEN <<>>
    ELSE IF Head(s) \in seen THEN DropDup(Tail(s), seen)
         ELSE <<Head(s)>> \o DropDup(Tail(s), seen \cup {Head(s)})

drop_duplicates(rows) == DropDup(rows, {})

\* The categories of a categorical column: every value the loaded table holds.
Categories(rows, k) == {rows[i][k] : i \in DOMAIN rows}

\* Variant: a missing file is swallowed and None is returned.
load_data_none(f) ==
    IF ~f.exists
    THEN [raised |-> "none", read |-> FALSE, isNone |-> TRUE,
          columns |-> {}, rows |-> <<>>, categories |-> [k \in categorical_columns |-> {}]]
    ELSE LET rows == drop_duplicates(f.rows) IN
         [raised |-> "none", read |-> TRUE, isNone |-> FALSE,
          columns |-> f.columns, rows |-> rows,
          categories |-> [k \in categorical_columns |-> Categories(rows, k)]]

\* load_data(): raises FileNotFoundError before reading when the file is
\* absent; otherwise returns the de-duplicated table whose gender, country
\* and occupation columns are categoricals.
load_data(f) ==
    IF ~f.exists
    THEN [raised |-> "FileNotFoundError", read |-> FALSE, isNone |-> FALSE,
          columns |-> {}, rows |-> <<>>, categories |-> [k \in categorical_columns |-> {}]]
    ELSE LET rows == drop_duplicates(f.rows) IN
         [raised |-> "none", read |-> TRUE, isNone |-> FALSE,
          columns |-> f.columns, rows |-> rows,
          categories |-> [k \in categorical_columns |-> Categories(rows, k)]]

(***************************************************************************)
(* Recode loop of a page: every listed column the table has is recoded.    *)
(***************************************************************************)
RecodeRows(rows, factors) ==
    [i \in DOMAIN rows |->
        [rows[i] EXCEPT !.vals =
            [c \in DOMAIN rows[i].vals |->
                IF c \in factors THEN Recoder(rows[i].vals[c]) ELSE rows[i].vals[c]]]]

\* st.error(f"Column '{col}' not found in dataset!") for each listed column
\* the table lacks (Dashboard and Country pages).
ColumnErrors(columns, factors) ==
    {[kind |-> "error", text |-> "column not found", col |-> c] : c \in factors \ columns}

(***************************************************************************)
(* Binner: min-max scaling over the rows in view and the 0.5 threshold.    *)
(***************************************************************************)
SetMin(S) == CHOOSE x \in S : \A y \in S : x <= y
SetMax(S) == CHOOSE x \in S : \A y \in S : x >= y

\* df[col].notna().sum() over the rows in view
notna_sum(rows, view, col) == Cardinality({i \in view : notna(rows[i].vals[col])})

\* Series.min() / Series.max() skip NaN
Scores(rows, view, col) == {rows[i].vals[col].n : i \in {j \in view : notna(rows[j].vals[col])}}
\* Variant: the minimum of the whole table instead of the rows in view.
min_val_full(rows, view, col) == SetMin(Scores(rows, DOMAIN rows, col))

min_val(rows, view, col) == SetMin(Scores(rows, view, col))
max_val(rows, view, col) == SetMax(Scores(rows, view, col))

\* A scaled value is NaN or the fraction num/den with den > 0.
Frac(a, b) == [t |-> "num", num |-> a, den |-> b]
FracNaN    == [t |-> "nan", num |-> 0, den |-> 1]

\* Variant: the distance to the maximum is scaled instead of the distance
\* to the minimum.
scaled_value_inverted(x, lo, hi) ==
    IF lo # hi
    THEN (IF notna(x) THEN Frac(hi - x.n, hi - lo) ELSE FracNaN)
    ELSE Frac(0, 1)

\* Variant: the zero-variance branch assigns 1 instead of 0.
scaled_value_one(x, lo, hi) ==
    IF lo # hi
    THEN (IF notna(x) THEN Frac(x.n - lo, hi - lo) ELSE FracNaN)
    ELSE Frac(1, 1)

\* (df[col] - min_val) / (max_val - min_val) when min_val != max_val, else the
\* constant 0 assigned to every row in view.
scaled_value(x, lo, hi) ==
    IF lo # hi
    THEN (IF notna(x) THEN Frac(x.n - lo, hi - lo) ELSE FracNaN)
    ELSE Frac(0, 1)

\* threshold = 0.5
threshold == Frac(1, 2)

\* x > threshold; a comparison with NaN is False
gt(x, y) == x.t = "num" /\ y.t = "num" /\ x.num * y.den > y.num * x.den

\* Variant: a missing scaled value is passed on instead of labelled.
category_propagate(x) ==
    IF x.t = "nan" THEN "NaN" ELSE IF gt(x, threshold) THEN "High" ELSE "Low"

\* Variant: the threshold test written with >= instead of >.
category_ge(x) == IF gt(x, threshold) \/ (x.t = "num" /\ x.num * threshold.den = threshold.num * x.den)
                  THEN "High" ELSE "Low"

\* lambda x: "High" if x > 0.5 else "Low"
category(x) == IF gt(x, threshold) THEN "High" ELSE "Low"

\* The label column of the rows in view for one factor.
Binner(rows, view, col) ==
    LET lo == min_val(rows, view, col)
        hi == max_val(rows, view, col)
    IN [i \in view |-> category(scaled_value(rows[i].vals[col], lo, hi))]

(***************************************************************************)
(* Aggregator: groupby(...).size().reset_index(name="Count")               *)
(***************************************************************************)
\* groupby([key, "category"]) where key is a categorical column.  With
\* observed=True only the combinations present in view are groups; with
\* observed=False the groups are every category of key paired with every
\* label present in view, and size() is 0 for the absent combinations.
groupby_size(rows, view, key, cats, labels, obs) ==
    LET present == {<<rows[i][key], labels[i]>> : i \in view}
        groups  == IF obs THEN present
                   ELSE cats \X {labels[i] : i \in view}
    IN { [group |-> g[1], category |-> g[2],
          Count |-> Cardinality({i \in view : rows[i][key] = g[1] /\ labels[i] = g[2]})] :
         g \in groups }

\* groupby([f"{col}_category"]) on the Dashboard: one plain (object) key.
groupby_category(view, labels, factor) ==
    { [group |-> factor, category |-> l,
       Count |-> Cardinality({i \in view : labels[i] = l})] :
      l \in {labels[i] : i \in view} }

(***************************************************************************)
(* Outcome of one script run.                                              *)
(***************************************************************************)
NoWidgets ==
    [countries |-> {}, occupations |-> {}, gender |-> "All", factor |-> ""]

NoRender ==
    [page |-> "none", sel |-> NoWidgets, status |-> "none", error |-> "none",
     messages |-> {}, steps |-> <<>>, loaded |-> "none", csv_read |-> FALSE,
     categories |-> {},
     rows |-> <<>>, view |-> {}, bounds |-> <<>>, category |-> <<>>,
     category_counts |-> {}, chart |-> FALSE]

\* The uncaught exception of load_data() ends the run at line 10: Streamlit
\* shows the exception and nothing after the call is executed.
LoadRaised(page, ld) ==
    [NoRender EXCEPT !.page = page, !.status = "raised", !.error = ld.raised,
                     !.messages = {[kind |-> "exception", text |-> ld.raised, col |-> ""]},
                     !.steps = <<"load">>, !.loaded = "raised", !.csv_read = ld.read]

\* if df is None: st.error("Failed to load data. ..."); st.stop()
LoadNone(page, ld) ==
    [NoRender EXCEPT !.page = page, !.status = "stopped",
                     !.messages = {[kind |-> "error", text |-> "Failed to load data", col |-> ""]},
                     !.steps = <<"load">>, !.loaded = "None", !.csv_read = ld.read]

\* min_val and max_val of a binned factor, as the run computed them
Bounds(rows, view, col) == <<min_val(rows, view, col), max_val(rows, view, col)>>

(***************************************************************************)
(* Dashboard.py: every stress column is binned over the whole table.       *)
(***************************************************************************)
\* The columns of a list that come before its first column outside `ok`.
Before(list, ok) ==
    {list[k] : k \in {j \in DOMAIN list : \A h \in 1..j : list[h] \in ok}}

DashboardRun(f) ==
    LET ld == load_data(f) IN
    IF ld.raised # "none" THEN LoadRaised("Dashboard", ld)
    ELSE IF ld.isNone THEN LoadNone("Dashboard", ld)
    ELSE
    LET factors  == Range(stress_related_columns)
        rows     == RecodeRows(ld.rows, factors)
        view     == DOMAIN rows
        \* normalize loop: df_selected[col] raises KeyError at the first
        \* column the table lacks
        reached  == Before(stress_related_columns, ld.columns)
        binned   == {c \in reached : notna_sum(rows, view, c) > 0}
        labels   == [c \in binned |-> Binner(rows, view, c)]
        bnds     == [c \in binned |-> Bounds(rows, view, c)]
        \* aggregate loop: groupby([f"{col}_category"]) raises KeyError at the
        \* first column that was not binned
        counted  == Before(stress_related_columns, binned)
        counts   == UNION {groupby_category(view, labels[c], c) : c \in counted}
        base     == [NoRender EXCEPT !.page = "Dashboard",
                                     !.messages = ColumnErrors(ld.columns, factors),
                                     !.loaded = "DataFrame", !.csv_read = ld.read,
                                     !.categories = ld.categories["country"],
                                     !.rows = rows, !.view = view,
                                     !.bounds = bnds, !.category = labels]
    IN IF reached # factors
       THEN [base EXCEPT !.status = "raised", !.error = "KeyError",
                         !.steps = <<"load", "recode", "bin">>]
       ELSE IF counted # factors
       THEN [base EXCEPT !.status = "raised", !.error = "KeyError",
                         !.steps = <<"load", "recode", "bin", "aggregate">>,
                         !.category_counts = counts]
       ELSE [base EXCEPT !.status = "chart", !.chart = TRUE,
                         !.steps = <<"load", "recode", "bin", "aggregate", "chart">>,
                         !.category_counts = counts]

(***************************************************************************)
(* Country_Analysis.py                                                     *)
(***************************************************************************)
\* if "All Countries" in selected_countries: selected_countries = all_countries
EffectiveCountries(picked, all_countries) ==
    IF "All Countries" \in picked THEN all_countries ELSE picked

CountryRun(f, obs, picked, selected_factor) ==
    LET ld == load_data(f) IN
    IF ld.raised # "none" THEN LoadRaised("Country", ld)
    ELSE IF ld.isNone THEN LoadNone("Country", ld)
    ELSE
    LET factors   == Range(stress_related_columns)
        rows      == RecodeRows(ld.rows, factors)
        all_countries      == ld.categories["country"]
        selected_countries == EffectiveCountries(picked, all_countries)
        sel       == [NoWidgets EXCEPT !.countries = selected_countries,
                                       !.factor = selected_factor]
        \* df_selected = df[df["country"].isin(selected_countries)]
        view      == {i \in DOMAIN rows : rows[i].country \in selected_countries}
        labels    == Binner(rows, view, selected_factor)
        base      == [NoRender EXCEPT !.page = "Country", !.sel = sel,
                                      !.messages = ColumnErrors(ld.columns, factors),
                                      !.loaded = "DataFrame", !.csv_read = ld.read,
                                      !.categories = all_countries,
                                      !.rows = rows, !.view = view]
    IN IF selected_countries = {}
       THEN [base EXCEPT !.status = "info",
                         !.messages = @ \cup {[kind |-> "info", text |-> "select a country", col |-> ""]},
                         !.steps = <<"load", "recode", "filter">>]
       ELSE IF selected_factor \notin ld.columns
       THEN [base EXCEPT !.status = "raised", !.error = "KeyError",
                         !.steps = <<"load", "recode", "filter">>]
       ELSE IF notna_sum(rows, view, selected_factor) > 0
       THEN [base EXCEPT !.status = "chart", !.chart = TRUE,
                         !.steps = <<"load", "recode", "filter", "bin", "aggregate", "chart">>,
                         !.bounds = (selected_factor :> Bounds(rows, view, selected_factor)),
                         !.category = (selected_factor :> labels),
                         !.category_counts =
                             groupby_size(rows, view, "country", all_countries, labels, obs)]
       ELSE [base EXCEPT !.status = "warning",
                         !.messages = @ \cup {[kind |-> "warning", text |-> "no valid data", col |-> selected_factor]},
                         !.steps = <<"load", "recode", "filter">>]

(***************************************************************************)
(* Occuption_Analysis.py                                                   *)
(***************************************************************************)
female_only_occupations == {"housewife"}

\* str.lower() on the strings of the model
lower(s) ==
    CASE s = "Housewife" -> "housewife"
      [] s = "Student"   -> "student"
      [] s = "Male"      -> "male"
      [] s = "Female"    -> "female"
      [] s = "All"       -> "all"
      [] OTHER           -> s

\* include_mask: a female-only occupation is kept for female rows only, and
\* the gender filter, when not "All", keeps the rows of that gender.
include_mask(row, selected_occupations, gender_filter) ==
    /\ (\E occ \in selected_occupations : lower(occ) \in female_only_occupations)
          => ~(lower(row.occupation) \in female_only_occupations
               /\ lower(row.gender) # "female")
    /\ lower(gender_filter) # "all" => lower(row.gender) = lower(gender_filter)

OccupationRun(f, obs, selected_occupations, selected_factor_col, gender_filter) ==
    LET ld == load_data(f) IN
    IF ld.raised # "none" THEN LoadRaised("Occupation", ld)
    ELSE IF ld.isNone THEN LoadNone("Occupation", ld)
    ELSE
    LET factors   == Range(mental_health_factors)
        rows      == RecodeRows(ld.rows, factors)
        all_occupations == ld.categories["occupation"]
        sel       == [NoWidgets EXCEPT !.occupations = selected_occupations,
                                       !.gender = gender_filter,
                                       !.factor = selected_factor_col]
        \* df_filtered = df[df["occupation"].isin(selected_occupations)]
        isin      == {i \in DOMAIN rows : rows[i].occupation \in selected_occupations}
        view      == {i \in isin : include_mask(rows[i], selected_occupations, gender_filter)}
        labels    == Binner(rows, view, selected_factor_col)
        base      == [NoRender EXCEPT !.page = "Occupation", !.sel = sel,
                                      !.loaded = "DataFrame", !.csv_read = ld.read,
                                      !.categories = all_occupations,
                                      !.rows = rows]
    IN IF /\ Cardinality(selected_occupations) = 1
          /\ \A occ \in selected_occupations : lower(occ) \in female_only_occupations
          /\ lower(gender_filter) = "male"
       THEN [base EXCEPT !.status = "stopped", !.view = isin,
                         !.messages = {[kind |-> "subheader", text |-> "Housewife aur Mard?", col |-> ""]},
                         !.steps = <<"load", "recode", "filter">>]
       ELSE IF selected_occupations = {}
       THEN [base EXCEPT !.status = "info", !.view = view,
                         !.messages = {[kind |-> "info", text |-> "select an occupation", col |-> ""]},
                         !.steps = <<"load", "recode", "filter">>]
       ELSE IF selected_factor_col \notin ld.columns
       THEN [base EXCEPT !.status = "raised", !.error = "KeyError", !.view = view,
                         !.steps = <<"load", "recode", "filter">>]
       ELSE IF notna_sum(rows, view, selected_factor_col) > 0
       THEN [base EXCEPT !.status = "chart", !.chart = TRUE, !.view = view,
                         !.steps = <<"load", "recode", "filter", "bin", "aggregate", "chart">>,
                         !.bounds = (selected_factor_col :> Bounds(rows, view, selected_factor_col)),
                         !.category = (selected_factor_col :> labels),
                         !.category_counts =
                             groupby_size(rows, view, "occupation", all_occupations, labels, obs)]
       ELSE [base EXCEPT !.status = "warning", !.view = view,
                         !.messages = {[kind |-> "warning", text |-> "no data found", col |-> selected_factor_col]},
                         !.steps = <<"load", "recode", "filter">>]

(***************************************************************************)
(* The application: a page script runs on every interaction.               *)
(***************************************************************************)
GenderOptions == {"All", "Male", "Female"}

\* The factors picked in the factor selectbox of a page.
FactorInputs == {"growing_stress", "coping_struggles"}

\* What the sidebar multiselect of a page offers for the current file, and
\* the picks made in it: "All Countries" or any set of countries; any set of
\* occupations.
CountryPicks(f)    == {{"All Countries"}} \cup SUBSET Categories(f.rows, "country")
OccupationPicks(f) == SUBSET Categories(f.rows, "occupation")

Init ==
    /\ file \in CsvFiles
    /\ observed \in BOOLEAN
    /\ render = NoRender
    /\ column = <<>>
    /\ recoded = <<>>
    /\ rerecoded = <<>>
    /\ session = <<>>
    /\ clicks = 0

\* The chart type selectbox only chooses between px.bar and px.pie over the
\* same category_counts, so one figure stands for both.
RenderDashboard ==
    /\ render' = DashboardRun(file)
    /\ UNCHANGED <<file, observed, column, recoded, rerecoded, session, clicks>>

RenderCountry ==
    /\ \E picked \in CountryPicks(file),
          selected_factor \in Range(stress_related_columns) \cap FactorInputs :
          render' = CountryRun(file, observed, picked, selected_factor)
    /\ UNCHANGED <<file, observed, column, recoded, rerecoded, session, clicks>>

RenderOccupation ==
    /\ \E selected_occupations \in OccupationPicks(file),
          selected_factor_col \in Range(mental_health_factors) \cap FactorInputs,
          gender_filter \in GenderOptions :
          render' = OccupationRun(file, observed, selected_occupations,
                                  selected_factor_col, gender_filter)
    /\ UNCHANGED <<file, observed, column, recoded, rerecoded, session, clicks>>

Next == RenderDashboard \/ RenderCountry \/ RenderOccupation

Spec == Init /\ [][Next]_vars

(***************************************************************************)
(* Overview.py: quick stats, a pie of the raw answers, and the globe with  *)
(* the "Rotate View" button, whose flag lives in st.session_state.         *)
(***************************************************************************)
\* st.session_state.get(key, default)
session_get(sess, key, default) ==
    IF key \in DOMAIN sess THEN sess[key] ELSE default

\* Variant: the button sets the flag instead of toggling it.
rotate_press_set(sess) == [k \in DOMAIN sess \cup {"rotate"} |-> TRUE]

\* st.session_state["rotate"] = not st.session_state.get("rotate", False)
rotate_press(sess) ==
    [k \in DOMAIN sess \cup {"rotate"} |->
        IF k = "rotate" THEN ~session_get(sess, "rotate", FALSE) ELSE sess[k]]

\* df["country"].value_counts().reset_index()
country_counts(rows) ==
    { [group |-> c, category |-> "",
       Count |-> Cardinality({i \in DOMAIN rows : rows[i].country = c})] :
      c \in Categories(rows, "country") }

\* One run of the Overview script: `pressed` says whether st.button("Rotate
\* View") returns True in this run.  The result is the page outcome and the
\* session state the run leaves.
OverviewRun(f, sess, factor, pressed) ==
    LET ld == load_data(f) IN
    IF ld.raised # "none" THEN [out |-> LoadRaised("Overview", ld), session |-> sess]
    ELSE IF ld.isNone THEN [out |-> LoadNone("Overview", ld), session |-> sess]
    ELSE
    LET base == [NoRender EXCEPT !.page = "Overview",
                                 !.sel = [NoWidgets EXCEPT !.factor = factor],
                                 !.loaded = "DataFrame", !.csv_read = ld.read,
                                 !.categories = ld.categories["country"],
                                 !.rows = ld.rows, !.view = DOMAIN ld.rows]
        \* the button is reached only inside the globe branch
        after == IF pressed THEN rotate_press(sess) ELSE sess
    IN IF ~(Range(stress_related_columns) \subseteq ld.columns)
       \* df[stress_related_columns] raises KeyError
       THEN [out |-> [base EXCEPT !.status = "raised", !.error = "KeyError",
                                  !.steps = <<"load">>],
             session |-> sess]
       ELSE IF ld.rows = <<>>
       \* no country data: st.warning, the globe and its button are not shown
       THEN [out |-> [base EXCEPT !.status = "warning",
                                  !.messages = {[kind |-> "warning", text |-> "no country data", col |-> ""]},
                                  !.steps = <<"load", "stats", "pie">>],
             session |-> sess]
       ELSE [out |-> [base EXCEPT !.status = "chart", !.chart = TRUE,
                                  !.category_counts = country_counts(ld.rows),
                                  !.steps = IF session_get(after, "rotate", FALSE)
                                            THEN <<"load", "stats", "pie", "globe", "rotate">>
                                            ELSE <<"load", "stats", "pie", "globe">>],
             session |-> after]

\* The "Rotate View" button is on screen: the latest run drew the globe.
RotateButtonShown == render.page = "Overview" /\ render.status = "chart"

\* Any interaction with the Overview page other than the rotate button
\* (opening it, the factor selectbox, Refresh, projection, intensity).
RenderOverview ==
    /\ \E factor \in Range(stress_related_columns) \cap FactorInputs :
          LET run == OverviewRun(file, session, factor, FALSE)
          IN render' = run.out /\ session' = run.session
    /\ UNCHANGED <<file, observed, column, recoded, rerecoded, clicks>>

\* A click on "Rotate View": the script reruns with the same widgets and
\* st.button returns True.
PressRotate ==
    /\ RotateButtonShown
    /\ clicks < MaxClicks
    /\ clicks' = clicks + 1
    /\ LET run == OverviewRun(file, session, render.sel.factor, TRUE)
       IN render' = run.out /\ session' = run.session
    /\ UNCHANGED <<file, observed, column, recoded, rerecoded>>

InitSession ==
    /\ Init
    /\ Len(file.rows) <= MaxSessionRows

NextSession ==
    \/ RenderOverview
    \/ PressRotate
    \/ RenderDashboard
    \/ RenderCountry
    \/ RenderOccupation

SpecSession == InitSession /\ [][NextSession]_vars

(***************************************************************************)
(* The Recoder on its own: a raw column is recoded.                        *)
(***************************************************************************)
RawColumns == UNION {[1..n -> {Str(t) : t \in RawTokens}] : n \in 1..MaxColLen}

InitRecoder ==
    /\ file = [exists |-> FALSE, columns |-> {}, rows |-> <<>>]
    /\ observed = FALSE
    /\ render = NoRender
    /\ column \in RawColumns
    /\ recoded = <<>>
    /\ rerecoded = <<>>
    /\ session = <<>>
    /\ clicks = 0

Recode ==
    /\ recoded = <<>>
    /\ recoded' = RecodeColumn(column)
    /\ UNCHANGED <<file, observed, render, column, rerecoded, session, clicks>>

\* The recode loop run once more over the column it has produced.
RecodeAgain ==
    /\ recoded # <<>>
    /\ rerecoded = <<>>
    /\ rerecoded' = RecodeColumn(recoded)
    /\ UNCHANGED <<file, observed, render, column, recoded, session, clicks>>

NextRecoder == Recode \/ RecodeAgain

SpecRecoder == InitRecoder /\ [][NextRecoder]_vars

(***************************************************************************)
(* Properties.                                                             *)
(***************************************************************************)
\* The recoded score of row i for factor c in the latest run.
Score(i, c) == render.rows[i].vals[c]

\* The non-missing scores of factor c among the rows in view.
ViewScores(c) == {Score(i, c).n : i \in {j \in render.view : notna(Score(j, c))}}

IsLeast(x, S)    == x \in S /\ \A y \in S : x <= y
IsGreatest(x, S) == x \in S /\ \A y \in S : x >= y

\* The factors the latest run has binned.
BinnedFactors == DOMAIN render.category

FilterPage == render.page \in {"Country", "Occupation"}

RECURSIVE SumCounts(_)
SumCounts(S) ==
    IF S = {} THEN 0
    ELSE LET r == CHOOSE x \in S : TRUE IN r.Count + SumCounts(S \ {r})

\* C1: on every page that bins, when the non-missing scores in view have
\* min # max, a row with non-missing score v is "High" exactly when
\* (v - min)/(max - min) > 0.5, i.e. 2*(v - min) > max - min, and "Low"
\* otherwise; a score at the midpoint is "Low".
C1_HighIffAboveHalf ==
    \A c \in BinnedFactors : \A lo, hi \in ViewScores(c) :
        (IsLeast(lo, ViewScores(c)) /\ IsGreatest(hi, ViewScores(c)) /\ lo # hi)
        => \A i \in render.view :
             notna(Score(i, c))
             => /\ render.category[c][i] \in {"Low", "High"}
                /\ render.category[c][i] = "High" <=> 2 * (Score(i, c).n - lo) > hi - lo

\* A run in which a row sits exactly at the midpoint of a spread subset.
C1_Witness ==
    \E c \in BinnedFactors : \E lo, hi \in ViewScores(c) : \E i \in render.view :
        /\ IsLeast(lo, ViewScores(c)) /\ IsGreatest(hi, ViewScores(c)) /\ lo # hi
        /\ notna(Score(i, c))
        /\ 2 * (Score(i, c).n - lo) = hi - lo
        /\ render.category[c][i] = "Low"

\* C2: a row whose recoded value for the factor is missing gets neither
\* "Low" nor "High" and is not counted in the count table of that factor.
C2_MissingRowsUnlabelled ==
    (FilterPage /\ render.status = "chart")
    => \A c \in BinnedFactors :
         /\ \A i \in render.view :
              ~notna(Score(i, c))
              => (i \notin DOMAIN render.category[c]
                  \/ render.category[c][i] \notin {"Low", "High"})
         /\ SumCounts(render.category_counts)
              = Cardinality({i \in render.view : notna(Score(i, c))})

\* The score the fixed table gives each vocabulary token.
ExpectedScore(tok) ==
    CASE tok = "No" -> 0
      [] tok = "Yes" -> 1
      [] tok = "Rarely" -> 1
      [] tok = "Sometimes" -> 2
      [] tok = "Often" -> 3
      [] tok = "Always" -> 4
      [] tok = "1-14 days" -> 7
      [] tok = "15-30 days" -> 22
      [] tok = "More than 30 days" -> 35
      [] tok = "Go out Every day" -> 0
      [] tok = "More than 2 months" -> 60

Vocabulary ==
    {"No", "Yes", "Rarely", "Sometimes", "Often", "Always", "1-14 days", "15-30 days",
     "More than 30 days", "Go out Every day", "More than 2 months"}

NumericLooking == {"5", "0", "22"}

\* The number a numeric-looking token denotes.
Denotes(tok) ==
    CASE tok = "5" -> 5
      [] tok = "0" -> 0
      [] tok = "22" -> 22

Recoded == recoded # <<>>

\* C3 as stated: each vocabulary token is recoded to its score and every
\* token outside the vocabulary, numeric-looking ones included, to missing.
C3_OutsideVocabularyMissing ==
    Recoded
    => /\ DOMAIN recoded = DOMAIN column
       /\ \A i \in DOMAIN column :
            IF column[i].s \in Vocabulary
            THEN recoded[i] = Num(ExpectedScore(column[i].s))
            ELSE recoded[i] = NaN

\* C3 amended: each vocabulary token is recoded to its score; a token outside
\* the vocabulary that does not parse as a number is recoded to missing, a
\* numeric-looking one to the number it denotes; every cell is recoded (no
\* error).
C3_RecoderTable ==
    Recoded
    => /\ DOMAIN recoded = DOMAIN column
       /\ \A i \in DOMAIN column :
            /\ column[i].s \in Vocabulary
                 => recoded[i] = Num(ExpectedScore(column[i].s))
            /\ column[i].s \notin Vocabulary \cup NumericLooking
                 => recoded[i] = NaN
            /\ column[i].s \in NumericLooking
                 => recoded[i] = Num(Denotes(column[i].s))

\* A recoded column holding a vocabulary token and an unexpected one.
C3_Witness ==
    /\ Recoded
    /\ \E i, j \in DOMAIN column :
         /\ column[i] = Str("Rarely") /\ recoded[i] = Num(1)
         /\ column[j] \in {Str("Maybe"), Str("5")} /\ i # j

\* C4: when all non-missing scores in view are identical, every respondent
\* holding one is labelled "Low".
C4_DegenerateAllLow ==
    \A c \in BinnedFactors :
        Cardinality(ViewScores(c)) = 1
        => \A i \in render.view :
             notna(Score(i, c)) => render.category[c][i] = "Low"

\* A filtered subset of a single respondent whose score is not 0.
C4_Witness ==
    /\ FilterPage /\ render.status = "chart"
    /\ Cardinality(render.view) = 1
    /\ \E c \in BinnedFactors : \E i \in render.view :
         Score(i, c) = Num(4) /\ render.category[c][i] = "Low"

\* C5: every row of the aggregated count table has Count >= 1.
C5_NoZeroCountRows ==
    \A r \in render.category_counts : r.Count >= 1

\* C6: on the Country and Occupation pages the min and max used for scaling
\* are the least and the greatest non-missing score among the rows that pass
\* the filter.
C6_BoundsOfFilteredSubset ==
    FilterPage
    => \A c \in DOMAIN render.bounds :
         /\ IsLeast(render.bounds[c][1], ViewScores(c))
         /\ IsGreatest(render.bounds[c][2], ViewScores(c))

\* A row labelled "High" under the current country selection and "Low" when
\* all countries are selected, the table's bounds being wider than the
\* subset's.
C6_Witness ==
    /\ render.page = "Country" /\ render.status = "chart"
    /\ LET other == CountryRun(file, observed, {"All Countries"}, render.sel.factor)
       IN /\ other.status = "chart"
          /\ \E i \in render.view :
               /\ render.category[render.sel.factor][i] = "High"
               /\ other.category[render.sel.factor][i] = "Low"
               /\ notna(Score(i, render.sel.factor))

\* The factor columns a page reads.
PageFactors ==
    CASE render.page = "Dashboard"  -> Range(stress_related_columns)
      [] render.page = "Country"    -> Range(stress_related_columns)
      [] render.page = "Occupation" -> Range(mental_health_factors)
      [] OTHER -> {}

\* C7: when an expected factor column is absent from the loaded table, the
\* page shows a warning for that column and completes the render without
\* raising.
C7_MissingColumnSkipped ==
    (render.loaded = "DataFrame" /\ PageFactors \ file.columns # {})
    => /\ render.status # "raised"
       /\ \A c \in PageFactors \ file.columns :
            \E m \in render.messages : m.col = c

\* The factors whose validity decides whether the page has data to chart.
CurrentFactors ==
    IF render.page = "Dashboard" THEN Range(stress_related_columns)
    ELSE {render.sel.factor}

\* C8: when a present factor has no non-missing value among the rows in
\* view, the render ends showing a message and no chart, without raising.
C8_NoDataEndsInMessage ==
    ( /\ render.loaded = "DataFrame"
      /\ CurrentFactors \subseteq file.columns
      /\ \E c \in CurrentFactors :
           \A i \in render.view : ~notna(Score(i, c)) )
    => /\ render.status \in {"info", "warning", "stopped"}
       /\ render.error = "none"
       /\ ~render.chart

FemaleOnly(occ) == lower(occ) \in female_only_occupations

\* C9: on the Occupation page no row in the counts combines a female-only
\* occupation with another gender, and with gender "Male" selected the count
\* table has no row for a female-only occupation.
C9_NoHousewifeMaleRows ==
    render.page = "Occupation"
    => /\ render.status = "chart"
          => \A i \in render.view :
               FemaleOnly(render.rows[i].occupation)
               => lower(render.rows[i].gender) = "female"
       /\ render.sel.gender = "Male"
          => \A r \in render.category_counts : ~FemaleOnly(r.group)

\* C10: with the CSV absent a run ends in load_data's FileNotFoundError,
\* raised before any read; the error is shown, the load is not repeated, no
\* table (and no None) is returned and no later step runs.
C10_MissingFileIsFatal ==
    (render.page # "none" /\ ~file.exists)
    => /\ render.status = "raised"
       /\ render.error = "FileNotFoundError"
       /\ ~render.csv_read
       /\ render.loaded = "raised"
       /\ render.steps = <<"load">>
       /\ \E m \in render.messages : m.kind = "exception"
       /\ render.rows = <<>> /\ render.category = <<>>
       /\ render.category_counts = {} /\ ~render.chart

\* A page run against an absent CSV.
C10_Witness ==
    /\ render.page = "Country"
    /\ ~file.exists
    /\ render.error = "FileNotFoundError"

\* C11: the Recoder is idempotent: recoding a column it has already recoded
\* leaves every value, missing ones included, unchanged.
C11_RecoderIdempotent ==
    rerecoded # <<>>
    => /\ DOMAIN rerecoded = DOMAIN recoded
       /\ \A i \in DOMAIN recoded : rerecoded[i] = recoded[i]

\* A column recoded twice that holds a score and a missing value.
C11_Witness ==
    /\ rerecoded # <<>>
    /\ \E i, j \in DOMAIN rerecoded :
         /\ column[i].s \in Vocabulary /\ rerecoded[i].t = "num"
         /\ column[j].s = "Maybe" /\ rerecoded[j] = NaN

\* C13: within one filtered subset the labelling is monotone in the score
\* (a row scoring at least as much as a "High" row is "High"), and when
\* min # max the rows at the maximum are "High" and the rows at the minimum
\* are "Low", so both labels occur.
C13_LabelMonotone ==
    \A c \in BinnedFactors :
        LET valid == {i \in render.view : notna(Score(i, c))}
            label(i) == render.category[c][i]
        IN /\ \A a, b \in valid :
                (Score(a, c).n <= Score(b, c).n /\ label(a) = "High") => label(b) = "High"
           /\ Cardinality(ViewScores(c)) > 1
                => /\ \A i \in valid :
                        /\ IsGreatest(Score(i, c).n, ViewScores(c)) => label(i) = "High"
                        /\ IsLeast(Score(i, c).n, ViewScores(c)) => label(i) = "Low"
                   /\ \E i, j \in valid : label(i) = "High" /\ label(j) = "Low"

\* A subset of three different scores: the lowest "Low", the highest "High".
C13_Witness ==
    \E c \in BinnedFactors :
        /\ Cardinality(ViewScores(c)) = 3
        /\ \E i, j \in render.view :
             /\ notna(Score(i, c)) /\ notna(Score(j, c))
             /\ Score(i, c).n < Score(j, c).n
             /\ render.category[c][i] = "Low" /\ render.category[c][j] = "High"

\* C14: on the Country and Occupation pages, whenever a chart is produced,
\* every row of the filtered subset has exactly one of the labels
\* "Low"/"High" and the Counts of the count table add up to the number of rows
\* of the filtered subset.
C14_CountsCoverSubset ==
    (FilterPage /\ render.status = "chart")
    => /\ \A i \in render.view :
            /\ i \in DOMAIN render.category[render.sel.factor]
            /\ render.category[render.sel.factor][i] \in {"Low", "High"}
       /\ SumCounts(render.category_counts) = Cardinality(render.view)

\* A chart over a subset of several rows, one of them with a missing score.
C14_Witness ==
    /\ FilterPage /\ render.status = "chart"
    /\ Cardinality(render.view) >= 2
    /\ Cardinality(ViewScores(render.sel.factor)) >= 2
    /\ \E i \in render.view : ~notna(Score(i, render.sel.factor))

\* The "rotate" flag as the scripts read it.
Rotate == session_get(session, "rotate", FALSE)

\* What the latest run computes from the file and its own widgets alone:
\* the outcome of the same run started with an empty session state.
FreshRun(r) ==
    CASE r.page = "Dashboard"  -> DashboardRun(file)
      [] r.page = "Country"    -> CountryRun(file, observed, r.sel.countries, r.sel.factor)
      [] r.page = "Occupation" -> OccupationRun(file, observed, r.sel.occupations,
                                                r.sel.factor, r.sel.gender)
      [] r.page = "Overview"   -> OverviewRun(file, <<>>, r.sel.factor, FALSE).out
      [] OTHER -> NoRender

SameData(r, q) ==
    /\ r.loaded = q.loaded /\ r.rows = q.rows /\ r.view = q.view
    /\ r.bounds = q.bounds /\ r.category = q.category
    /\ r.category_counts = q.category_counts

\* C12: the only state carried from one render to the next is the boolean
\* "rotate" flag; it starts false, a press of "Rotate View" flips it, every
\* other interaction leaves it unchanged, and the table, labels and counts of
\* a render are those computed from the file and that render's selection.
C12_OnlyRotateCarried ==
    /\ Rotate = FALSE
    /\ [](Rotate <=> clicks % 2 = 1)
    /\ [][ /\ DOMAIN session' \subseteq {"rotate"}
           /\ Rotate' \in BOOLEAN
           /\ clicks' = clicks + 1 => Rotate' = ~Rotate
           /\ clicks' = clicks => Rotate' = Rotate
           /\ SameData(render', FreshRun(render')) ]_vars

\* The flag back at false after two presses, the globe drawn unrotated.
C12_Witness ==
    /\ "rotate" \in DOMAIN session /\ session["rotate"] = FALSE
    /\ clicks = 2
    /\ render.page = "Overview" /\ render.status = "chart"
    /\ render.steps = <<"load", "stats", "pie", "globe">>

====
